---- MODULE Spec2Model ----
(***************************************************************************)
(* Command resolution of the standard framework                            *)
(* (src/src/framework/standard/parse/mod.rs): prefix parsing, token        *)
(* probing, the recursive group/command descent with its permission gate,  *)
(* and the loop over the top-level entries.                                *)
(*                                                                         *)
(* A string is a sequence of one-character strings; Option<T> is a         *)
(* sequence of length 0 (None) or 1 (Some).                                *)
(***************************************************************************)
EXTENDS Integers, Sequences, FiniteSets, TLC

VARIABLES
    config,        \* the Configuration of the resolution
    msg,           \* the Message (author, origin, guild context)
    opts,          \* the options handed to check_discrepancy
    groups,        \* the ordered top-level table: (group, Map) pairs
    help_was_set,  \* Option of the registered help names
    map,           \* the ParseMap handed to try_parse
    stream,        \* the cursor: [src, offset]
    begin,         \* the offset the cursor had when the operation began
    pc,            \* position of the running operation
    idx,           \* index of the next candidate (resolver or top-level entry)
    last,          \* command()'s `last`
    result,        \* what the operation returned
    log,           \* the attempts made so far, in order
    tasks          \* the resolutions in flight at once, each with its cursor

vars == <<config, msg, opts, groups, help_was_set, map, stream, begin, pc,
          idx, last, result, log, tasks>>

----------------------------------------------------------------------------
(* Bounds of the model *)

MaxMentionLen == 5
MaxTailLen == 2
MaxDynamic == 2
MaxKeyLen == 2
MaxKeys == 2
MaxProbeLen == 3
MaxEntries == 2
MaxTextLen == 3

----------------------------------------------------------------------------
(* Option and basic helpers *)

None == <<>>

Some(x) == <<x>>

Min(a, b) == IF a <= b THEN a ELSE b

Max(a, b) == IF a >= b THEN a ELSE b

\* All sequences over S of length at most n.
SeqsUpTo(S, n) == UNION {[1..k -> S] : k \in 0..n}

\* `let x = e; body`: e is evaluated once and body reads its value.
Let(e, body(_)) == CHOOSE out \in {body(x) : x \in {e}} : TRUE

IsPrefixOf(p, s) == Len(p) <= Len(s) /\ SubSeq(s, 1, Len(p)) = p

----------------------------------------------------------------------------
(* Characters *)

Whitespace == {" "}

Numeric == {"0", "1", "2", "3", "4", "5", "6", "7", "8", "9"}

\* char::to_lowercase on the letters of the model's alphabets.
LowerChar(c) ==
    CASE c = "A" -> "a"
      [] c = "B" -> "b"
      [] OTHER -> c

LowerStr(s) == [i \in 1..Len(s) |-> LowerChar(s[i])]

to_lowercase(cfg, s) == IF cfg.case_insensitive THEN LowerStr(s) ELSE s

----------------------------------------------------------------------------
(* The cursor (uwl::Stream) *)

offset(s) == s.offset

set(s, pos) == [s EXCEPT !.offset = pos]

increment(s, n) == [s EXCEPT !.offset = @ + n]

rest(s) == SubSeq(s.src, s.offset + 1, Len(s.src))

peek_for(s, n) == SubSeq(s.src, s.offset + 1, Min(s.offset + n, Len(s.src)))

\* Length of the longest prefix of t whose characters are all in S.
RECURSIVE RunIn(_, _)
RunIn(t, S) ==
    IF t = <<>> \/ Head(t) \notin S THEN 0 ELSE 1 + RunIn(Tail(t), S)

\* Length of the longest prefix of t with no character in S.
RECURSIVE RunOut(_, _)
RunOut(t, S) ==
    IF t = <<>> \/ Head(t) \in S THEN 0 ELSE 1 + RunOut(Tail(t), S)

peek_until(s, S) == SubSeq(rest(s), 1, RunOut(rest(s), S))

take_while(s, S) ==
    LET n == RunIn(rest(s), S)
    IN  [text |-> SubSeq(rest(s), 1, n), stream |-> increment(s, n)]

eat(s, lit) ==
    IF peek_for(s, Len(lit)) = lit
    THEN [ok |-> TRUE, stream |-> increment(s, Len(lit))]
    ELSE [ok |-> FALSE, stream |-> s]

----------------------------------------------------------------------------
(* mention *)

mention_no_backtrack(s, cfg) ==
    IF cfg.on_mention = None
    THEN [val |-> None, stream |-> s]
    ELSE
      LET e1 == eat(s, <<"<", "@">>)
      IN  IF ~e1.ok
          THEN [val |-> None, stream |-> e1.stream]
          ELSE
            LET id == take_while(eat(e1.stream, <<"!">>).stream, Numeric)
                e3 == eat(id.stream, <<">">>)
            IN  IF e3.ok /\ id.text = cfg.on_mention[1]
                THEN [val |-> Some(id.text), stream |-> e3.stream]
                ELSE [val |-> None, stream |-> e3.stream]

mention(s, cfg) ==
    IF cfg.on_mention = None
    THEN [val |-> None, stream |-> s]
    ELSE
      LET on_mention == cfg.on_mention[1]
          start == offset(s)
          e1 == eat(s, <<"<", "@">>)
      IN  IF ~e1.ok
          THEN [val |-> None, stream |-> e1.stream]
          ELSE
            LET e2 == eat(e1.stream, <<"!">>)
                id == take_while(e2.stream, Numeric)
                e3 == eat(id.stream, <<">">>)
            IN  IF ~e3.ok
                THEN [val |-> None, stream |-> set(e3.stream, start)]
                ELSE IF id.text = on_mention
                THEN [val |-> Some(id.text), stream |-> e3.stream]
                ELSE [val |-> None, stream |-> set(e3.stream, start)]

----------------------------------------------------------------------------
(* Configuration and Message *)

DefaultConfig ==
    [ prefixes          |-> <<>>,
      dynamic_prefixes  |-> <<>>,
      on_mention        |-> None,
      case_insensitive  |-> FALSE,
      owners            |-> {"owner"},
      allow_dm          |-> TRUE,
      with_whitespace   |-> [prefixes |-> FALSE, groups |-> FALSE,
                             commands |-> FALSE],
      disabled_commands |-> {},
      by_space          |-> TRUE ]

DefaultMsg ==
    [ author |-> "user", is_private |-> FALSE, guild |-> "cached",
      perms |-> {}, member |-> TRUE, roles |-> {} ]

----------------------------------------------------------------------------
(* Specification of mention(): every text over the mention alphabet *)

MentionAlphabet == {"<", "@", "!", ">", "1", "2"}

MentionIds == {<<"1">>, <<"1", "2">>}

InitMention ==
    /\ \E t \in SeqsUpTo(MentionAlphabet, MaxMentionLen) :
       \E o \in {0, 1} :
          /\ o <= Len(t)
          /\ stream = [src |-> t, offset |-> o]
          /\ begin = o
    /\ \E m \in {None} \cup {Some(x) : x \in MentionIds} :
          config = [DefaultConfig EXCEPT !.on_mention = m]
    /\ msg = DefaultMsg
    /\ opts = None
    /\ groups = <<>>
    /\ help_was_set = None
    /\ map = <<>>
    /\ pc = "mention"
    /\ idx = 1
    /\ last = None
    /\ result = None
    /\ log = <<>>
    /\ tasks = <<>>

Mention ==
    /\ pc = "mention"
    /\ LET r == mention(stream, config)
       IN  /\ result' = r.val
           /\ stream' = r.stream
    /\ pc' = "done"
    /\ UNCHANGED <<config, msg, opts, tasks, groups, help_was_set, map, begin,
                   idx, last, log>>

NextMention == Mention

SpecMention == InitMention /\ [][NextMention]_vars

\* The text from the offset at which the operation began.
Input == SubSeq(stream.src, begin + 1, Len(stream.src))

\* C9: with on_mention = X, "<@X>" and "<@!X>" at the cursor are accepted and
\* consumed; for every other input mention() returns None and leaves the
\* cursor at the offset it had before the call.
MentionParsing ==
    pc = "done" =>
      LET direct == IF config.on_mention = None THEN <<>>
                    ELSE <<"<", "@">> \o config.on_mention[1] \o <<">">>
          nick   == IF config.on_mention = None THEN <<>>
                    ELSE <<"<", "@", "!">> \o config.on_mention[1] \o <<">">>
      IN  IF config.on_mention # None /\ IsPrefixOf(direct, Input)
          THEN result = config.on_mention /\ stream.offset = begin + Len(direct)
          ELSE IF config.on_mention # None /\ IsPrefixOf(nick, Input)
          THEN result = config.on_mention /\ stream.offset = begin + Len(nick)
          ELSE result = None /\ stream.offset = begin

\* A mention with a different id was scanned up to its ">" and rejected.
MentionRejectedWitness ==
    /\ pc = "done"
    /\ config.on_mention = Some(<<"1">>)
    /\ begin = 1
    /\ IsPrefixOf(<<"<", "@", "2", ">">>, Input)
    /\ result = None

----------------------------------------------------------------------------
(* find_prefix and prefix *)

try_match_unfolded(cfg, s, p) ==
    IF p = peek_for(s, Len(p)) THEN Some(p) ELSE None

\* The closure try_match of find_prefix.
try_match(cfg, s, p) ==
    LET peeked == to_lowercase(cfg, peek_for(s, Len(p)))
    IN  IF p = peeked THEN Some(peeked) ELSE None

\* One turn of the loop over config.dynamic_prefixes: the resolver's answer
\* for this context and message is dynamic_prefixes[i].
dynamic_match(cfg, s, i) ==
    LET p == cfg.dynamic_prefixes[i]
    IN  IF p = None THEN None ELSE try_match(cfg, s, p[1])

\* config.prefixes.iter().find_map(try_match), from index i on.
RECURSIVE find_map(_, _, _)
find_map(cfg, s, i) ==
    IF i > Len(cfg.prefixes) THEN None
    ELSE IF try_match(cfg, s, cfg.prefixes[i]) # None
    THEN try_match(cfg, s, cfg.prefixes[i])
    ELSE find_map(cfg, s, i + 1)

\* The texts of prefix(): an optional mention, then a short tail.
MentionHeads == {<<>>, <<"<", "@", "1", ">">>, <<"<", "@", "!", "1", ">">>}

PrefixAlphabet == {"!", "a", "A", " "}

PrefixStrings == {<<"!">>, <<"!", "a">>}

StaticChoices ==
    {<<>>, <<<<"!">>>>, <<<<"!">>, <<"!", "a">>>>, <<<<"!", "a">>, <<"!">>>>}

InitPrefix ==
    /\ \E h \in MentionHeads : \E t \in SeqsUpTo(PrefixAlphabet, MaxTailLen) :
          stream = [src |-> h \o t, offset |-> 0]
    /\ begin = 0
    /\ \E m \in {None, Some(<<"1">>)} :
       \E d \in SeqsUpTo({None} \cup {Some(p) : p \in PrefixStrings}, MaxDynamic) :
       \E st \in StaticChoices :
       \E ci \in BOOLEAN : \E ws \in BOOLEAN :
          config = [DefaultConfig EXCEPT
                      !.on_mention = m,
                      !.dynamic_prefixes = d,
                      !.prefixes = st,
                      !.case_insensitive = ci,
                      !.with_whitespace.prefixes = ws]
    /\ msg = DefaultMsg
    /\ opts = None
    /\ groups = <<>>
    /\ help_was_set = None
    /\ map = <<>>
    /\ pc = "prefix"
    /\ idx = 1
    /\ last = None
    /\ result = None
    /\ log = <<>>
    /\ tasks = <<>>

\* prefix(), lines 105-109: the mention, and the whitespace after it.
PrefixMention ==
    /\ pc = "prefix"
    /\ LET r == mention(stream, config)
       IN  IF r.val # None
           THEN /\ stream' = take_while(r.stream, Whitespace).stream
                /\ result' = r.val
                /\ pc' = "done"
           ELSE /\ stream' = r.stream
                /\ result' = result
                /\ pc' = "dynamic"
    /\ UNCHANGED <<config, msg, opts, tasks, groups, help_was_set, map, begin,
                   idx, last, log>>

\* find_prefix, lines 76-82: one resolver is awaited and its answer tried.
DynamicPrefix ==
    /\ pc = "dynamic"
    /\ idx <= Len(config.dynamic_prefixes)
    /\ LET m == dynamic_match(config, stream, idx)
       IN  IF m # None
           THEN /\ last' = m
                /\ pc' = "advance"
                /\ idx' = idx
           ELSE /\ last' = last
                /\ pc' = pc
                /\ idx' = idx + 1
    /\ UNCHANGED <<config, msg, opts, tasks, groups, help_was_set, map,
                   stream, begin, result, log>>

\* find_prefix, line 84: no resolver matched, the static prefixes are scanned.
StaticPrefix ==
    /\ pc = "dynamic"
    /\ idx > Len(config.dynamic_prefixes)
    /\ last' = find_map(config, stream, 1)
    /\ pc' = "advance"
    /\ UNCHANGED <<config, msg, opts, tasks, groups, help_was_set, map,
                   stream, begin, idx, result, log>>

\* prefix(), lines 113-121.
PrefixAdvance ==
    /\ pc = "advance"
    /\ LET s1 == IF last # None THEN increment(stream, Len(last[1])) ELSE stream
           s2 == IF config.with_whitespace.prefixes
                 THEN take_while(s1, Whitespace).stream ELSE s1
       IN  stream' = s2
    /\ result' = last
    /\ pc' = "done"
    /\ UNCHANGED <<config, msg, opts, tasks, groups, help_was_set, map, begin,
                   idx, last, log>>

NextPrefix == PrefixMention \/ DynamicPrefix \/ StaticPrefix \/ PrefixAdvance

SpecPrefix == InitPrefix /\ [][NextPrefix]_vars

\* p matches the text at the cursor: the text has Len(p) characters there
\* and, case-folded per config, they are p.
MatchesInput(p) ==
    /\ Len(p) <= Len(Input)
    /\ \A k \in 1..Len(p) :
          (IF config.case_insensitive THEN LowerChar(Input[k]) ELSE Input[k]) = p[k]

\* The accepted mention at the cursor, if any.
MentionForm ==
    IF config.on_mention = None THEN None
    ELSE LET direct == <<"<", "@">> \o config.on_mention[1] \o <<">">>
             nick   == <<"<", "@", "!">> \o config.on_mention[1] \o <<">">>
         IN  IF IsPrefixOf(direct, Input) THEN Some(direct)
             ELSE IF IsPrefixOf(nick, Input) THEN Some(nick)
             ELSE None

DynamicMatches ==
    {i \in 1..Len(config.dynamic_prefixes) :
        /\ config.dynamic_prefixes[i] # None
        /\ MatchesInput(config.dynamic_prefixes[i][1])}

StaticMatches ==
    {i \in 1..Len(config.prefixes) : MatchesInput(config.prefixes[i])}

Least(S) == CHOOSE i \in S : \A j \in S : i <= j

\* Number of whitespace characters of the input from position n + 1 on.
WhitespaceAfter(n) == RunIn(SubSeq(Input, n + 1, Len(Input)), Whitespace)

\* C10: prefix() returns and consumes the first match among the mention, the
\* dynamic prefixes in registration order and the static prefixes in
\* configured order; a dynamic match wins over a static one, and a resolver
\* that answers nothing or a non-matching string stops nothing after it.
PrefixPrecedence ==
    pc = "done" =>
      IF MentionForm # None
      THEN /\ result = config.on_mention
           /\ stream.offset = begin + Len(MentionForm[1])
                                 + WhitespaceAfter(Len(MentionForm[1]))
      ELSE IF DynamicMatches # {}
      THEN LET p == config.dynamic_prefixes[Least(DynamicMatches)][1]
           IN  /\ result = Some(p)
               /\ stream.offset = begin + Len(p)
                     + (IF config.with_whitespace.prefixes
                        THEN WhitespaceAfter(Len(p)) ELSE 0)
      ELSE IF StaticMatches # {}
      THEN LET p == config.prefixes[Least(StaticMatches)]
           IN  /\ result = Some(p)
               /\ stream.offset = begin + Len(p)
                     + (IF config.with_whitespace.prefixes
                        THEN WhitespaceAfter(Len(p)) ELSE 0)
      ELSE result = None

\* A resolver answered nothing, a later one matched, and a longer static
\* prefix matched the text as well: the dynamic prefix was returned.
PrefixPrecedenceWitness ==
    /\ pc = "done"
    /\ config.dynamic_prefixes = <<None, Some(<<"!">>)>>
    /\ config.prefixes = <<<<"!", "a">>, <<"!">>>>
    /\ config.case_insensitive
    /\ stream.src = <<"!", "A">>
    /\ result = Some(<<"!">>)
    /\ stream.offset = 1

----------------------------------------------------------------------------
(* Name maps (parse/map.rs): a map is a function from its registered keys  *)
(* to their entries.                                                       *)

is_empty(m) == DOMAIN m = {}

get(m, n) == IF n \in DOMAIN m THEN Some(m[n]) ELSE None

\* Length of the shortest registered key (0 for an empty map).
min_length(m) ==
    IF is_empty(m) THEN 0
    ELSE LET k == CHOOSE k \in DOMAIN m : \A j \in DOMAIN m : Len(k) <= Len(j)
         IN  Len(k)

\* Length of the longest registered key (0 for an empty map).
max_length(m) ==
    IF is_empty(m) THEN 0
    ELSE LET k == CHOOSE k \in DOMAIN m : \A j \in DOMAIN m : Len(k) >= Len(j)
         IN  Len(k)

----------------------------------------------------------------------------
(* try_parse *)

\* String::pop
pop(n) == IF n = <<>> THEN n ELSE SubSeq(n, 1, Len(n) - 1)

\* The loop of lines 190-198 with k turns left: look n up, stop on a match,
\* else drop the last character.
RECURSIVE shrink(_, _, _)
shrink(m, n, k) ==
    IF k = 0 THEN [n |-> n, o |-> None]
    ELSE IF get(m, n) # None THEN [n |-> n, o |-> get(m, n)]
    ELSE shrink(m, pop(n), k - 1)

\* The closure handed to try_parse: parse_cmd's |s| to_lowercase(config, s)
\* or parse_group's ToString::to_string.
lowercase_of(cfg) == [fold |-> cfg.case_insensitive]

to_string == [fold |-> FALSE]

apply(f, x) == IF f.fold THEN LowerStr(x) ELSE x

try_parse_shrinking(s, m, by_space, f) ==
    shrink(m, apply(f, peek_for(s, max_length(m))),
           max_length(m) - min_length(m))

try_parse(s, m, by_space, f) ==
    IF by_space
    THEN Let(apply(f, peek_until(s, Whitespace)), LAMBDA n :
             [n |-> n, o |-> get(m, n)])
    ELSE shrink(m, apply(f, peek_for(s, max_length(m))),
                max_length(m) - min_length(m))

----------------------------------------------------------------------------
(* Specification of try_parse: every small map, every short text *)

KeyAlphabet == {"a", "b"}

TextAlphabet == {"a", "b", "A", " "}

Keys == SeqsUpTo(KeyAlphabet, MaxKeyLen) \ {<<>>}

\* A map of commands without restrictions or sub-commands, one per key.
PlainMap(ks) == [k \in ks |-> [cmd |-> k, map |-> <<>>]]

InitTryParse ==
    /\ \E ks \in SUBSET Keys :
          /\ Cardinality(ks) <= MaxKeys
          /\ map = PlainMap(ks)
    /\ \E t \in SeqsUpTo(TextAlphabet, MaxProbeLen) :
          stream = [src |-> t, offset |-> 0]
    /\ begin = 0
    /\ \E bs \in BOOLEAN : \E ci \in BOOLEAN :
          config = [DefaultConfig EXCEPT !.by_space = bs, !.case_insensitive = ci]
    /\ msg = DefaultMsg
    /\ opts = None
    /\ groups = <<>>
    /\ help_was_set = None
    /\ pc = "try_parse"
    /\ idx = 1
    /\ last = None
    /\ result = None
    /\ log = <<>>
    /\ tasks = <<>>

\* try_parse as parse_cmd calls it (line 213).
TryParse ==
    /\ pc = "try_parse"
    /\ result' = try_parse(stream, map, config.by_space, lowercase_of(config))
    /\ pc' = "done"
    /\ UNCHANGED <<config, msg, opts, tasks, groups, help_was_set, map,
                   stream, begin, idx, last, log>>

NextTryParse == TryParse

SpecTryParse == InitTryParse /\ [][NextTryParse]_vars

\* The registered keys that are a prefix of the case-folded text at the cursor.
PrefixKeys == {k \in DOMAIN map : IsPrefixOf(k, to_lowercase(config, Input))}

\* C5: with by_space = false, try_parse returns the longest registered key
\* that is a prefix of the case-folded text at the cursor, and no match only
\* when no registered key is a prefix of it.
GreedyLongestMatch ==
    (pc = "done" /\ ~config.by_space) =>
      IF PrefixKeys = {}
      THEN result.o = None
      ELSE LET k == CHOOSE k \in PrefixKeys : \A j \in PrefixKeys : Len(j) <= Len(k)
           IN  /\ result.n = k
               /\ result.o = Some(map[k])

----------------------------------------------------------------------------
(* Errors and results *)

\* DispatchError: name is the Option<String> of CommandDisabled, perms the
\* bits of LackingPermissions.
DispatchError(tag, name, perms) == [tag |-> tag, name |-> name, perms |-> perms]

OnlyForOwners == DispatchError("OnlyForOwners", None, {})

OnlyForDM == DispatchError("OnlyForDM", None, {})

OnlyForGuilds == DispatchError("OnlyForGuilds", None, {})

LackingPermissions(bits) == DispatchError("LackingPermissions", None, bits)

LackingRole == DispatchError("LackingRole", None, {})

CommandDisabled(n) == DispatchError("CommandDisabled", Some(n), {})

\* ParseError::UnrecognisedCommand(o)
UnrecognisedCommand(o) ==
    [tag |-> "UnrecognisedCommand", kind |-> "", name |-> o, perms |-> {}]

\* ParseError::Dispatch(e)
Dispatch(e) ==
    [tag |-> "Dispatch", kind |-> e.tag, name |-> e.name, perms |-> e.perms]

Ok(v) == [ok |-> TRUE, val |-> <<v>>, err |-> <<>>]

Err(e) == [ok |-> FALSE, val |-> <<>>, err |-> <<e>>]

InvokeCommand(group, command) ==
    [tag |-> "Command", group |-> group, command |-> command]

InvokeHelp(name) == [tag |-> "Help", name |-> name]

----------------------------------------------------------------------------
(* The registered commands and groups. A command or group is referred to   *)
(* by a short reference, as the code refers to it by &'static; its options *)
(* are looked up from the reference.                                       *)

\* Options restricted as `profile` says: "open" (no restriction), "owners"
\* (owners_only) or "dm" (only_in = Dm).
CommandOptions(profile) ==
    [ owners_only |-> profile = "owners",
      only_in |-> IF profile = "dm" THEN "Dm" ELSE "None",
      required_permissions |-> {},
      owner_privilege |-> FALSE,
      allowed_roles |-> {} ]

GroupOptions(profile, dc) ==
    [ owners_only |-> profile = "owners",
      only_in |-> IF profile = "dm" THEN "Dm" ELSE "None",
      required_permissions |-> {},
      owner_privilege |-> FALSE,
      allowed_roles |-> {},
      default_command |-> dc ]

\* The commands: "b" and its twin for direct messages only, "b_dm"; their
\* sub-command "sub" and its twin for owners only, "sub_owners"; "default",
\* the fallback of a group, for owners only. Any other reference is a
\* command without restrictions.
CommandOptionsOf(cmd) ==
    CASE cmd = "b_dm" -> CommandOptions("dm")
      [] cmd = "default" -> CommandOptions("owners")
      [] cmd = "sub_owners" -> CommandOptions("owners")
      [] OTHER -> CommandOptions("open")

\* The four kinds of top-level group: 1 unrestricted; 2 for owners only;
\* 3 its command is for direct messages only; 4 as 3, with a default_command.
EntryProfiles == 1..4

\* A fifth kind, met on one-entry tables only: as 1, with its sub-group and
\* the sub-command of its command for owners only.
NestedProfile == 5

\* A group is [kind, profile]; kind "Sub" is the sub-group of an entry.
GroupOptionsOf(group) ==
    IF group.kind = "Sub"
    THEN GroupOptions(IF group.profile = NestedProfile THEN "owners" ELSE "open",
                      None)
    ELSE GroupOptions(IF group.profile = 2 THEN "owners" ELSE "open",
                      IF group.profile = 4 THEN Some("default") ELSE None)

----------------------------------------------------------------------------
(* check_discrepancy *)

\* has_correct_roles: no role restriction, or the member holds an allowed role.
has_correct_roles(options, m) ==
    options.allowed_roles = {} \/ options.allowed_roles \cap m.roles # {}

check_discrepancy_no_degrade(m, cfg, options) ==
    IF options.owners_only /\ m.author \notin cfg.owners
    THEN Err(OnlyForOwners)
    ELSE IF options.only_in = "Dm" /\ ~m.is_private
    THEN Err(OnlyForDM)
    ELSE IF (~cfg.allow_dm \/ options.only_in = "Guild") /\ m.is_private
    THEN Err(OnlyForGuilds)
    ELSE IF /\ ~(options.required_permissions \subseteq
                   (IF m.guild = "cached" THEN m.perms ELSE {}))
            /\ ~(options.owner_privilege /\ m.author \in cfg.owners)
    THEN Err(LackingPermissions(options.required_permissions))
    ELSE IF /\ m.guild = "cached"
            /\ m.member
            /\ "ADMINISTRATOR" \notin m.perms
            /\ ~has_correct_roles(options, m)
    THEN Err(LackingRole)
    ELSE Ok("unit")

check_discrepancy_dm_first(m, cfg, options) ==
    IF options.only_in = "Dm" /\ ~m.is_private
    THEN Err(OnlyForDM)
    ELSE IF options.owners_only /\ m.author \notin cfg.owners
    THEN Err(OnlyForOwners)
    ELSE IF (~cfg.allow_dm \/ options.only_in = "Guild") /\ m.is_private
    THEN Err(OnlyForGuilds)
    ELSE IF m.guild # "cached"
    THEN Ok("unit")
    ELSE IF /\ ~(options.required_permissions \subseteq m.perms)
            /\ ~(options.owner_privilege /\ m.author \in cfg.owners)
    THEN Err(LackingPermissions(options.required_permissions))
    ELSE IF /\ m.member
            /\ "ADMINISTRATOR" \notin m.perms
            /\ ~has_correct_roles(options, m)
    THEN Err(LackingRole)
    ELSE Ok("unit")

\* Lines 125-172. m.guild is "none" (no guild_id), "uncached" (line 149) or
\* "cached"; m.perms are the author's permissions in the channel, m.member
\* whether the guild lists the author as a member.
check_discrepancy(m, cfg, options) ==
    IF options.owners_only /\ m.author \notin cfg.owners
    THEN Err(OnlyForOwners)
    ELSE IF options.only_in = "Dm" /\ ~m.is_private
    THEN Err(OnlyForDM)
    ELSE IF (~cfg.allow_dm \/ options.only_in = "Guild") /\ m.is_private
    THEN Err(OnlyForGuilds)
    ELSE IF m.guild # "cached"
    THEN Ok("unit")
    ELSE IF /\ ~(options.required_permissions \subseteq m.perms)
            /\ ~(options.owner_privilege /\ m.author \in cfg.owners)
    THEN Err(LackingPermissions(options.required_permissions))
    ELSE IF /\ m.member
            /\ "ADMINISTRATOR" \notin m.perms
            /\ ~has_correct_roles(options, m)
    THEN Err(LackingRole)
    ELSE Ok("unit")

----------------------------------------------------------------------------
(* parse_cmd, parse_group, handle_command, handle_group: each returns its  *)
(* result and the cursor it leaves.                                        *)

\* The cursor after a matched name of n characters: lines 222-226 with
\* trim = with_whitespace.commands, lines 257-261 with .groups.
advance(s, n, trim) ==
    IF trim THEN take_while(increment(s, n), Whitespace).stream
    ELSE increment(s, n)

IsUnrecognised(res, some) ==
    /\ ~res.ok
    /\ res.err[1].tag = "UnrecognisedCommand"
    /\ (res.err[1].name # None) = some

RECURSIVE parse_cmd(_, _, _, _)
cmd_matched_masking(s, m, cfg, t) ==
    Let(advance(s, Len(t.n), cfg.with_whitespace.commands), LAMBDA s2 :
    Let(check_discrepancy(m, cfg, CommandOptionsOf(t.o[1].cmd)), LAMBDA chk :
      IF ~chk.ok
      THEN [res |-> Err(Dispatch(chk.err[1])), stream |-> s2]
      ELSE IF is_empty(t.o[1].map)
      THEN [res |-> Ok(t.o[1].cmd), stream |-> s2]
      ELSE Let(parse_cmd(s2, m, cfg, t.o[1].map), LAMBDA r :
             IF ~r.res.ok
             THEN [res |-> Ok(t.o[1].cmd), stream |-> s2]
             ELSE r)))

\* Lines 221-238: the command t.o was matched under the name t.n.
cmd_matched(s, m, cfg, t) ==
    Let(advance(s, Len(t.n), cfg.with_whitespace.commands), LAMBDA s2 :
    Let(check_discrepancy(m, cfg, CommandOptionsOf(t.o[1].cmd)), LAMBDA chk :
      IF ~chk.ok
      THEN [res |-> Err(Dispatch(chk.err[1])), stream |-> s2]
      ELSE IF is_empty(t.o[1].map)
      THEN [res |-> Ok(t.o[1].cmd), stream |-> s2]
      ELSE Let(parse_cmd(s2, m, cfg, t.o[1].map), LAMBDA r :
             IF IsUnrecognised(r.res, TRUE)
             THEN [res |-> Ok(t.o[1].cmd), stream |-> r.stream]
             ELSE r)))

parse_cmd_consuming(s, m, cfg, cmap) ==
    Let(try_parse(s, cmap, cfg.by_space, lowercase_of(cfg)), LAMBDA t :
      IF t.n \in cfg.disabled_commands
      THEN [res |-> Err(Dispatch(CommandDisabled(t.n))), stream |-> s]
      ELSE IF t.o # None
      THEN cmd_matched(s, m, cfg, t)
      ELSE [res |-> Err(UnrecognisedCommand(Some(t.n))),
            stream |-> increment(s, Len(t.n))])

\* Lines 213-240.
parse_cmd(s, m, cfg, cmap) ==
    Let(try_parse(s, cmap, cfg.by_space, lowercase_of(cfg)), LAMBDA t :
      IF t.n \in cfg.disabled_commands
      THEN [res |-> Err(Dispatch(CommandDisabled(t.n))), stream |-> s]
      ELSE IF t.o # None
      THEN cmd_matched(s, m, cfg, t)
      ELSE [res |-> Err(UnrecognisedCommand(Some(t.n))), stream |-> s])

RECURSIVE parse_group(_, _, _, _)
\* Lines 256-272: the group t.o was matched under the name t.n.
group_matched(s, m, cfg, t) ==
    Let(advance(s, Len(t.n), cfg.with_whitespace.groups), LAMBDA s2 :
    Let(check_discrepancy(m, cfg, GroupOptionsOf(t.o[1].group)), LAMBDA chk :
    Let([group |-> t.o[1].group, commands |-> t.o[1].commands], LAMBDA this :
      IF ~chk.ok
      THEN [res |-> Err(Dispatch(chk.err[1])), stream |-> s2]
      ELSE IF is_empty(t.o[1].map)
      THEN [res |-> Ok(this), stream |-> s2]
      ELSE Let(parse_group(s2, m, cfg, t.o[1].map), LAMBDA r :
             IF IsUnrecognised(r.res, FALSE)
             THEN [res |-> Ok(this), stream |-> r.stream]
             ELSE r))))

parse_group(s, m, cfg, gmap) ==
    Let(try_parse(s, gmap, cfg.by_space, to_string), LAMBDA t :
      IF t.o # None
      THEN group_matched(s, m, cfg, t)
      ELSE [res |-> Err(UnrecognisedCommand(None)), stream |-> s])

handle_command_no_default(s, m, cfg, cmap, group) ==
    Let(parse_cmd(s, m, cfg, cmap), LAMBDA r :
      IF r.res.ok
      THEN [res |-> Ok(InvokeCommand(group, r.res.val[1])), stream |-> r.stream]
      ELSE r)

\* Lines 288-294.
handle_command(s, m, cfg, cmap, group) ==
    Let(parse_cmd(s, m, cfg, cmap), LAMBDA r :
      IF r.res.ok
      THEN [res |-> Ok(InvokeCommand(group, r.res.val[1])), stream |-> r.stream]
      ELSE IF GroupOptionsOf(group).default_command # None
      THEN [res |-> Ok(InvokeCommand(group,
                                     GroupOptionsOf(group).default_command[1])),
            stream |-> r.stream]
      ELSE r)

handle_group(s, m, cfg, gmap) ==
    Let(parse_group(s, m, cfg, gmap), LAMBDA r :
      IF r.res.ok
      THEN handle_command(r.stream, m, cfg, r.res.val[1].commands,
                          r.res.val[1].group)
      ELSE r)

----------------------------------------------------------------------------
(* command(): the help names *)

help_names_unordered(s, cfg, names, i) ==
    LET hits == {k \in i..Len(names) :
                   names[k] = to_lowercase(cfg, peek_for(s, Len(names[k])))}
    IN  IF hits = {} THEN None
        ELSE LET k == CHOOSE k \in hits : \A j \in hits : j <= k
             IN  Some([name |-> names[k],
                       stream |-> take_while(increment(s, Len(names[k])),
                                             Whitespace).stream])

\* Lines 343-353 from name i on: the first name equal to the case-folded
\* text of its length at the cursor; the name and the whitespace after it
\* are consumed.
RECURSIVE help_names(_, _, _, _)
help_names(s, cfg, names, i) ==
    IF i > Len(names) THEN None
    ELSE IF names[i] = to_lowercase(cfg, peek_for(s, Len(names[i])))
    THEN Some([name |-> names[i],
               stream |-> take_while(increment(s, Len(names[i])),
                                     Whitespace).stream])
    ELSE help_names(s, cfg, names, i + 1)

----------------------------------------------------------------------------
(* The maps of the top-level table, as create_group builds them *)

GroupNames == {<<"a">>, <<"a", "a">>}

CommandNames == {<<"b">>, <<"b", "b">>}

\* CommandMap::new: cmd under each of its names, with the map of its
\* sub-commands.
CommandMap(names, cmd, sub) == [k \in names |-> [cmd |-> cmd, map |-> sub]]

\* GroupMap::new: group under each of its prefixes, with the map of its
\* sub-groups and the map of its commands.
GroupMap(names, group, sub, commands) ==
    [k \in names |-> [group |-> group, map |-> sub, commands |-> commands]]

\* The sub-command of every command: "a" under "b".
SubCommands == CommandMap({<<"a">>}, "sub", <<>>)

\* The same, for owners only.
SubCommandsOwners == CommandMap({<<"a">>}, "sub_owners", <<>>)

\* The commands of a group of profile p.
EntryCommands(p) ==
    CommandMap(CommandNames, IF p \in {3, 4} THEN "b_dm" ELSE "b",
               IF p = NestedProfile THEN SubCommandsOwners ELSE SubCommands)

\* The sub-group "a" of every group, with the commands of its parent.
SubGroups(p) ==
    GroupMap({<<"a">>}, [kind |-> "Sub", profile |-> p], <<>>, EntryCommands(p))

\* Map::WithPrefixes(map) of a top-level group: it includes the group itself.
WithPrefixesMap(group) ==
    GroupMap(GroupNames, group, SubGroups(group.profile),
             EntryCommands(group.profile))

\* Map::Prefixless(subgroups, commands) of a top-level group.
PrefixlessSubgroups(group) == SubGroups(group.profile)

PrefixlessCommandMap(group) == EntryCommands(group.profile)

\* The top-level groups; groups is a sequence of them.
Entries ==
    {[kind |-> k, profile |-> p] :
        k \in {"WithPrefixes", "Prefixless"}, p \in EntryProfiles}

CommandAlphabet == {"a", "b", " "}

InitRun ==
    /\ begin = 0
    /\ msg = DefaultMsg
    /\ opts = None
    /\ map = <<>>
    /\ pc = "help"
    /\ idx = 1
    /\ last = Err(UnrecognisedCommand(None))
    /\ result = None
    /\ log = <<>>
    /\ tasks = <<>>

Init ==
    /\ \E t \in SeqsUpTo(CommandAlphabet, MaxTextLen) :
          stream = [src |-> t, offset |-> 0]
    /\ groups \in SeqsUpTo(Entries, MaxEntries)
    /\ help_was_set \in {None, Some(<<<<"a", "b">>>>)}
    /\ \E bs \in BOOLEAN : \E ws \in BOOLEAN :
       \E dis \in {{}, {<<"b">>}} :
          config = [DefaultConfig EXCEPT
                      !.by_space = bs,
                      !.with_whitespace.groups = ws,
                      !.with_whitespace.commands = ws,
                      !.disabled_commands = dis]
    /\ InitRun

----------------------------------------------------------------------------
(* command() *)

\* One attempt, as the log keeps it: the entry, the part of it ("groups":
\* handle_group, "commands": handle_command), the cursor before and after,
\* what the handler returned and what the attempt came to once the entry's
\* own gate was passed or not.
Attempt(i, phase, start, r, out) ==
    [idx |-> i, phase |-> phase, start |-> start, stop |-> r.stream.offset,
     res |-> r.res, out |-> out]

\* Lines 374 and 382: the gate of a prefixless entry's group, after one of
\* its attempts succeeded.
gated(m, cfg, group, res) ==
    LET chk == check_discrepancy(m, cfg, GroupOptionsOf(group))
    IN  IF chk.ok THEN res ELSE Err(Dispatch(chk.err[1]))

\* Lines 342-356.
HelpNames ==
    /\ pc = "help"
    /\ \E h \in {IF help_was_set = None THEN None
                 ELSE help_names(stream, config, help_was_set[1], 1)} :
           IF h # None
           THEN /\ stream' = h[1].stream
                /\ result' = Some(Ok(InvokeHelp(h[1].name)))
                /\ pc' = "done"
                /\ last' = last
           ELSE /\ stream' = stream
                /\ result' = result
                /\ pc' = "loop"
                /\ last' = Err(UnrecognisedCommand(None))
    /\ UNCHANGED <<config, msg, opts, tasks, groups, help_was_set, map, begin,
                   idx, log>>

\* Lines 361-369.
WithPrefixes ==
    /\ pc = "loop"
    /\ idx <= Len(groups)
    /\ groups[idx].kind = "WithPrefixes"
    /\ \E r \in {handle_group(stream, msg, config, WithPrefixesMap(groups[idx]))} :
           /\ stream' = r.stream
           /\ log' = Append(log, Attempt(idx, "groups", stream.offset, r, r.res))
           /\ IF r.res.ok
              THEN /\ result' = Some(r.res)
                   /\ pc' = "done"
                   /\ UNCHANGED <<last, idx>>
              ELSE /\ last' = r.res
                   /\ idx' = idx + 1
                   /\ UNCHANGED <<result, pc>>
    /\ UNCHANGED <<config, msg, opts, tasks, groups, help_was_set, map,
                   begin>>

\* Lines 370-377.
PrefixlessGroups ==
    /\ pc = "loop"
    /\ idx <= Len(groups)
    /\ groups[idx].kind = "Prefixless"
    /\ \E r \in {handle_group(stream, msg, config,
                                PrefixlessSubgroups(groups[idx]))} :
       \E out \in {IF r.res.ok THEN gated(msg, config, groups[idx], r.res)
                   ELSE r.res} :
           /\ stream' = r.stream
           /\ log' = Append(log, Attempt(idx, "groups", stream.offset, r, out))
           /\ IF r.res.ok
              THEN /\ result' = Some(out)
                   /\ pc' = "done"
              ELSE /\ result' = result
                   /\ pc' = "commands"
    /\ UNCHANGED <<config, msg, opts, tasks, groups, help_was_set, map, begin,
                   idx, last>>

\* Lines 379-387.
PrefixlessCommands ==
    /\ pc = "commands"
    /\ \E r \in {handle_command(stream, msg, config,
                                  PrefixlessCommandMap(groups[idx]),
                                  groups[idx])} :
       \E out \in {IF r.res.ok THEN gated(msg, config, groups[idx], r.res)
                   ELSE r.res} :
           /\ stream' = r.stream
           /\ log' = Append(log, Attempt(idx, "commands", stream.offset, r, out))
           /\ IF r.res.ok
              THEN /\ result' = Some(out)
                   /\ pc' = "done"
                   /\ UNCHANGED <<last, idx>>
              ELSE /\ last' = r.res
                   /\ idx' = idx + 1
                   /\ pc' = "loop"
                   /\ result' = result
    /\ UNCHANGED <<config, msg, opts, tasks, groups, help_was_set, map,
                   begin>>

\* Line 392.
Return ==
    /\ pc = "loop"
    /\ idx > Len(groups)
    /\ result' = Some(last)
    /\ pc' = "done"
    /\ UNCHANGED <<config, msg, opts, tasks, groups, help_was_set, map,
                   stream, begin, idx, last, log>>

Next ==
    HelpNames \/ WithPrefixes \/ PrefixlessGroups \/ PrefixlessCommands \/ Return

Spec == Init /\ [][Next]_vars

----------------------------------------------------------------------------
(* What the claims about command() speak of *)

\* The cursor as it was when command() began.
Start == [src |-> stream.src, offset |-> begin]

\* The outcome of the attempt on entry e alone, made from the cursor s.
EntryOutcome(s, e) ==
    IF e.kind = "WithPrefixes"
    THEN handle_group(s, msg, config, WithPrefixesMap(e)).res
    ELSE LET r1 == handle_group(s, msg, config, PrefixlessSubgroups(e))
             r2 == handle_command(r1.stream, msg, config,
                                  PrefixlessCommandMap(e), e)
         IN  IF r1.res.ok THEN gated(msg, config, e, r1.res)
             ELSE IF r2.res.ok THEN gated(msg, config, e, r2.res)
             ELSE r2.res

\* Entry i, tried from the cursor at which command() began.
Alone(i) == EntryOutcome(Start, groups[i])

IsDispatch(res) == ~res.ok /\ res.err[1].tag = "Dispatch"

Succeeding == {j \in 1..Len(groups) : Alone(j).ok}

Attempted == {log[k].idx : k \in 1..Len(log)}

\* The help names did not match and command() has returned.
Returned == pc = "done" /\ (help_was_set = None \/ log # <<>> \/ ~result[1].ok)

\* C1: when an entry fails with a Dispatch error and a later entry would
\* succeed, every entry up to the first succeeding one is attempted and
\* command() returns that entry's success.
DispatchKeepsLoopGoing ==
    (Returned /\ Succeeding # {}) =>
      LET j == Least(Succeeding)
      IN  (\E i \in 1..(j - 1) : IsDispatch(Alone(i))) =>
            /\ 1..j \subseteq Attempted
            /\ result = Some(Alone(j))

\* C3: when no entry succeeds, command() returns the error of the last
\* entry of the table, and UnrecognisedCommand(None) for an empty table.
LastErrorWins ==
    (Returned /\ Succeeding = {}) =>
      IF groups = <<>>
      THEN result = Some(Err(UnrecognisedCommand(None)))
      ELSE result = Some(Alone(Len(groups)))

\* C2: the command and the group of a returned Invoke::Command pass the
\* permission gate.
InvokeIsPermitted ==
    (pc = "done" /\ result[1].ok /\ result[1].val[1].tag = "Command") =>
      /\ check_discrepancy(msg, config,
                           CommandOptionsOf(result[1].val[1].command)).ok
      /\ check_discrepancy(msg, config,
                           GroupOptionsOf(result[1].val[1].group)).ok

\* The cursor and the command map with which the attempt L reached
\* command-level resolution, if it did: at once for the direct commands of
\* a prefixless entry, after the group names for the others.
CommandLevel(L) ==
    LET s == [src |-> stream.src, offset |-> L.start]
        e == groups[L.idx]
        g == parse_group(s, msg, config,
                         IF e.kind = "WithPrefixes" THEN WithPrefixesMap(e)
                         ELSE PrefixlessSubgroups(e))
    IN  IF L.phase = "commands"
        THEN Some([stream |-> s, map |-> PrefixlessCommandMap(e)])
        ELSE IF g.res.ok
        THEN Some([stream |-> g.stream, map |-> g.res.val[1].commands])
        ELSE None

\* The token probed there, and the entry of the map it matches.
Probe(L) ==
    try_parse(CommandLevel(L)[1].stream, CommandLevel(L)[1].map,
              config.by_space, lowercase_of(config))

\* C4: a token equal to a disabled command name yields
\* Dispatch(CommandDisabled(name)), never an Invoke.
DisabledShortCircuit ==
    \A k \in 1..Len(log) :
      (CommandLevel(log[k]) # None /\ Probe(log[k]).n \in config.disabled_commands)
        => log[k].res = Err(Dispatch(CommandDisabled(Probe(log[k]).n)))

\* The last attempt the log holds for the entry of L.
LastOf(L) ==
    log[CHOOSE k \in 1..Len(log) :
          /\ log[k].idx = L.idx
          /\ \A j \in 1..Len(log) : log[j].idx = L.idx => j <= k]

\* C7: when the command matched at command level is rejected by the gate,
\* the attempt on the entry ends there with that Dispatch error.
RejectionNotMasked ==
    \A k \in 1..Len(log) :
      LET L == log[k]
      IN  (/\ CommandLevel(L) # None
           /\ Probe(L).n \notin config.disabled_commands
           /\ Probe(L).o # None
           /\ ~check_discrepancy(msg, config,
                                 CommandOptionsOf(Probe(L).o[1].cmd)).ok)
          => LET e == check_discrepancy(msg, config,
                                        CommandOptionsOf(Probe(L).o[1].cmd))
             IN  /\ L.res = Err(Dispatch(e.err[1]))
                 /\ LastOf(L) = L

\* C6: the attempt made after a failed one starts at the offset at which
\* the failed one started: the next entry after a failed entry, and the
\* direct commands of a prefixless entry after its sub-groups.
BacktrackBeforeSibling ==
    \A k \in 1..(Len(log) - 1) :
      /\ (log[k + 1].idx = log[k].idx) => log[k + 1].start = log[k].start
      /\ (log[k + 1].idx # log[k].idx) =>
            \A j \in 1..k : log[j].idx = log[k].idx
                              => log[k + 1].start = log[j].start

----------------------------------------------------------------------------
(* command() with help names that collide with commands and groups *)

HelpAlphabet == {"a", "b", "B", " "}

\* The registered help names: "b" is also a command, "a" is also a group.
HelpNameLists ==
    {<< <<"b">> >>, << <<"b">>, <<"b", "a">> >>,
     << <<"b", "a">>, <<"b">> >>, << <<"a">> >>}

\* Tables whose entries carry the command "b" and the group "a": none, a
\* prefixless group whose "b" is for direct messages only, and a prefixed
\* group before a prefixless one with a default command.
HelpTables ==
    {<<>>,
     <<[kind |-> "Prefixless", profile |-> 3]>>,
     <<[kind |-> "WithPrefixes", profile |-> 1],
       [kind |-> "Prefixless", profile |-> 4]>>}

InitHelp ==
    /\ \E t \in SeqsUpTo(HelpAlphabet, MaxTextLen) : \E o \in {0, 1} :
          /\ o <= Len(t)
          /\ stream = [src |-> t, offset |-> o]
          /\ begin = o
    /\ groups \in HelpTables
    /\ help_was_set \in {None} \cup {Some(l) : l \in HelpNameLists}
    /\ \E bs \in BOOLEAN : \E ci \in BOOLEAN :
       \E dis \in {{}, {<<"b">>}} :
          config = [DefaultConfig EXCEPT
                      !.by_space = bs,
                      !.case_insensitive = ci,
                      !.with_whitespace.groups = TRUE,
                      !.with_whitespace.commands = TRUE,
                      !.disabled_commands = dis]
    /\ msg = DefaultMsg
    /\ opts = None
    /\ map = <<>>
    /\ pc = "help"
    /\ idx = 1
    /\ last = Err(UnrecognisedCommand(None))
    /\ result = None
    /\ log = <<>>
    /\ tasks = <<>>

SpecHelp == InitHelp /\ [][Next]_vars

\* The registered help names with which the text at the cursor begins,
\* once case-folded as the configuration says.
HelpMatches ==
    {k \in 1..Len(help_was_set[1]) :
        /\ Len(help_was_set[1][k]) <= Len(Input)
        /\ to_lowercase(config, SubSeq(Input, 1, Len(help_was_set[1][k])))
             = help_was_set[1][k]}

\* C8: when the text at the cursor begins with a registered help name,
\* command() returns Invoke::Help of the first such name, the name and the
\* whitespace after it consumed, and no group or command was probed.
HelpPrecedence ==
    (pc # "help" /\ help_was_set # None /\ HelpMatches # {}) =>
      LET name == help_was_set[1][Least(HelpMatches)]
      IN  /\ pc = "done"
          /\ result = Some(Ok(InvokeHelp(name)))
          /\ stream.offset = begin + Len(name) + WhitespaceAfter(Len(name))
          /\ log = <<>>
    /\ tasks = <<>>

\* Help is returned for "b", the first of two matching help names, though
\* "b" is a disabled command of the first group, for direct messages only.
HelpPrecedenceWitness ==
    /\ pc = "done"
    /\ help_was_set # None
    /\ Cardinality(HelpMatches) = 2
    /\ result = Some(Ok(InvokeHelp(<<"b">>)))
    /\ <<"b">> \in config.disabled_commands
    /\ groups # <<>>
    /\ groups[1] = [kind |-> "Prefixless", profile |-> 3]
    /\ <<"b">> \in DOMAIN PrefixlessCommandMap(groups[1])

----------------------------------------------------------------------------
(* command() on one top-level entry, texts in both letter cases *)

ResolveAlphabet == {"a", "A", "b", "B", " "}

ResolveEntries ==
    Entries \cup {[kind |-> k, profile |-> NestedProfile] :
                     k \in {"WithPrefixes", "Prefixless"}}

InitResolve ==
    /\ \E t \in SeqsUpTo(ResolveAlphabet, MaxTextLen) :
          stream = [src |-> t, offset |-> 0]
    /\ groups \in {<<>>} \cup {<<e>> : e \in ResolveEntries}
    /\ help_was_set = None
    /\ \E bs \in BOOLEAN : \E ci \in BOOLEAN : \E ws \in BOOLEAN :
       \E dis \in {{}, {<<"b">>}, {<<"a">>}} :
          config = [DefaultConfig EXCEPT
                      !.by_space = bs,
                      !.case_insensitive = ci,
                      !.with_whitespace.groups = ws,
                      !.with_whitespace.commands = ws,
                      !.disabled_commands = dis]
    /\ InitRun

SpecResolve == InitResolve /\ [][Next]_vars

\* The text from the cursor s on, and its first token.
TextAt(s) == SubSeq(s.src, s.offset + 1, Len(s.src))

TokenAt(s) == SubSeq(TextAt(s), 1, RunOut(TextAt(s), Whitespace))

\* No key of the map m is named at the cursor s once the text is folded by
\* fold: the token is no key (by_space), no key begins the text (greedy).
NoNameAt(s, m, fold) ==
    IF config.by_space
    THEN to_lowercase([case_insensitive |-> fold], TokenAt(s)) \notin DOMAIN m
    ELSE \A k \in DOMAIN m :
           ~IsPrefixOf(k, to_lowercase([case_insensitive |-> fold], TextAt(s)))

\* The group whose commands the attempt L resolved at command level.
ResolvedGroup(L) ==
    IF L.phase = "commands" THEN groups[L.idx]
    ELSE parse_group([src |-> stream.src, offset |-> L.start], msg, config,
                     IF groups[L.idx].kind = "WithPrefixes"
                     THEN WithPrefixesMap(groups[L.idx])
                     ELSE PrefixlessSubgroups(groups[L.idx])).res.val[1].group

\* The attempt L reached a group with a default_command, and what follows
\* the group names no command of it.
FallsBack(L) ==
    /\ CommandLevel(L) # None
    /\ GroupOptionsOf(ResolvedGroup(L)).default_command # None
    /\ NoNameAt(CommandLevel(L)[1].stream, CommandLevel(L)[1].map,
                config.case_insensitive)

\* C11: when a group with a default_command is resolved and what follows
\* names no command of the group, handle_command returns Invoke::Command
\* with that group and its default_command.
DefaultCommandFallback ==
    \A k \in 1..Len(log) :
      FallsBack(log[k]) =>
        log[k].res = Ok(InvokeCommand(ResolvedGroup(log[k]),
                          GroupOptionsOf(ResolvedGroup(log[k])).default_command[1]))

\* A prefixed group with a default command was named, a token that is none
\* of its commands follows, and the default command was returned.
DefaultCommandFallbackWitness ==
    /\ pc = "done"
    /\ Len(log) = 1
    /\ groups[1] = [kind |-> "WithPrefixes", profile |-> 4]
    /\ FallsBack(log[1])
    /\ TokenAt(CommandLevel(log[1])[1].stream) # <<>>
    /\ result = Some(Ok(InvokeCommand(groups[1], "default")))

\* The probe of the group names with which the sub-group or prefixed
\* attempt L began.
GroupProbe(L) ==
    try_parse([src |-> stream.src, offset |-> L.start],
              IF groups[L.idx].kind = "WithPrefixes"
              THEN WithPrefixesMap(groups[L.idx])
              ELSE PrefixlessSubgroups(groups[L.idx]),
              config.by_space, to_string)

\* C12: a parse_group or parse_cmd call whose probe finds no match returns
\* UnrecognisedCommand with the cursor at the offset it had when the call
\* began; the cursor moves only after a matched name.
FailedProbeKeepsCursor ==
    \A k \in 1..Len(log) :
      LET L == log[k]
      IN  /\ (L.phase = "groups" /\ GroupProbe(L).o = None) =>
                /\ L.res = Err(UnrecognisedCommand(None))
                /\ L.stop = L.start
          /\ (CommandLevel(L) # None /\ Probe(L).o = None) =>
                /\ L.stop = CommandLevel(L)[1].stream.offset
                /\ (/\ Probe(L).n \notin config.disabled_commands
                    /\ GroupOptionsOf(ResolvedGroup(L)).default_command = None)
                   => L.res = Err(UnrecognisedCommand(Some(Probe(L).n)))
          /\ L.stop > L.start =>
                \/ L.phase = "groups" /\ GroupProbe(L).o # None
                \/ L.phase = "commands" /\ Probe(L).o # None

\* A group name was matched and consumed, the token after it is no command:
\* parse_cmd left the cursor where it found that token.
FailedProbeKeepsCursorWitness ==
    /\ Len(log) = 1
    /\ log[1].phase = "groups"
    /\ CommandLevel(log[1]) # None
    /\ Probe(log[1]).o = None
    /\ Probe(log[1]).n # <<>>
    /\ log[1].res = Err(UnrecognisedCommand(Some(Probe(log[1]).n)))
    /\ log[1].stop > log[1].start
    /\ log[1].stop = CommandLevel(log[1])[1].stream.offset

\* The text at the start is one token, then whitespace only.
OneToken ==
    RunIn(SubSeq(TextAt(Start), Len(TokenAt(Start)) + 1, Len(TextAt(Start))),
          Whitespace) = Len(TextAt(Start)) - Len(TokenAt(Start))

\* C13: with case_insensitive = true, a token that differs only in letter
\* case from a name of an unrestricted top-level command resolves to
\* Invoke::Command for that command.
CaseInsensitiveCommand ==
    (/\ pc = "done"
     /\ config.case_insensitive
     /\ config.disabled_commands = {}
     /\ groups = <<[kind |-> "Prefixless", profile |-> 1]>>
     /\ OneToken
     /\ TokenAt(Start) # LowerStr(TokenAt(Start))
     /\ LowerStr(TokenAt(Start)) \in DOMAIN PrefixlessCommandMap(groups[1]))
    => result = Some(Ok(InvokeCommand(groups[1],
           PrefixlessCommandMap(groups[1])[LowerStr(TokenAt(Start))].cmd)))

\* The case-folded token at the cursor of try_parse.
FoldedToken == to_lowercase(config, TokenAt(Start))

\* C14: with by_space = true, try_parse probes the map with the whole
\* case-folded token up to the next whitespace or the end of the input, and
\* matches exactly when that token is a registered key.
BySpaceProbing ==
    (pc = "done" /\ config.by_space) =>
      /\ result.n = FoldedToken
      /\ result.o = (IF FoldedToken \in DOMAIN map
                     THEN Some(map[FoldedToken]) ELSE None)
      /\ stream.offset = begin

\* "a" is registered and begins the token "ab": no match.
BySpaceProbingWitness ==
    /\ pc = "done"
    /\ config.by_space
    /\ DOMAIN map = {<<"a">>}
    /\ TokenAt(Start) = <<"a", "b">>
    /\ Len(stream.src) = 3
    /\ result = [n |-> <<"a", "b">>, o |-> None]

\* C15: prefix() consumes the whitespace after a matched prefix exactly
\* when the prefix is a mention or with_whitespace.prefixes is set, and
\* when nothing matches it returns None and leaves the cursor where it was.
PrefixWhitespace ==
    pc = "done" =>
      IF result = None
      THEN stream.offset = begin
      ELSE LET n == IF MentionForm # None THEN Len(MentionForm[1])
                    ELSE Len(result[1])
           IN  stream.offset = begin + n
                 + (IF MentionForm # None \/ config.with_whitespace.prefixes
                    THEN WhitespaceAfter(n) ELSE 0)

\* C16: when the sub-group attempt of a prefixless entry matched a
\* sub-group and ended in a Dispatch error, the direct commands of the
\* entry are not probed and that error is the one recorded for the entry.
DispatchAbortsEntry ==
    \A k \in 1..Len(log) :
      LET L == log[k]
      IN  (/\ groups[L.idx].kind = "Prefixless"
           /\ L.phase = "groups"
           /\ GroupProbe(L).o # None
           /\ IsDispatch(L.res))
          => /\ \A j \in 1..Len(log) :
                    ~(log[j].idx = L.idx /\ log[j].phase = "commands")
             /\ (pc = "loop" /\ idx = L.idx + 1) => last = L.res

----------------------------------------------------------------------------
(* Specification of check_discrepancy: every message, every node's options *)

Permissions == {"SEND_MESSAGES", "ADMINISTRATOR"}

\* An administrator holds every permission.
EffectivePermissions == {{}, {"SEND_MESSAGES"}, Permissions}

Roles == {"role"}

\* A private message has no guild; any other has one, cached or not.
Messages ==
    {[author |-> a, is_private |-> g = "none", guild |-> g, perms |-> p,
      member |-> mb, roles |-> r] :
        a \in {"user", "owner"}, g \in {"none", "uncached", "cached"},
        p \in EffectivePermissions, mb \in BOOLEAN, r \in SUBSET Roles}

NodeOptions ==
    [owners_only : BOOLEAN, only_in : {"None", "Dm", "Guild"},
     required_permissions : SUBSET {"SEND_MESSAGES"},
     owner_privilege : BOOLEAN, allowed_roles : SUBSET Roles]

InitGate ==
    /\ msg \in Messages
    /\ opts \in {Some(o) : o \in NodeOptions}
    /\ \E dm \in BOOLEAN : config = [DefaultConfig EXCEPT !.allow_dm = dm]
    /\ stream = [src |-> <<>>, offset |-> 0]
    /\ begin = 0
    /\ groups = <<>>
    /\ help_was_set = None
    /\ map = <<>>
    /\ pc = "gate"
    /\ idx = 1
    /\ last = None
    /\ result = None
    /\ log = <<>>
    /\ tasks = <<>>

\* check_discrepancy on one node.
Check ==
    /\ pc = "gate"
    /\ result' = check_discrepancy(msg, config, opts[1])
    /\ pc' = "done"
    /\ UNCHANGED <<config, msg, opts, tasks, groups, help_was_set, map,
                   stream, begin, idx, last, log>>

NextGate == Check

SpecGate == InitGate /\ [][NextGate]_vars

IsOwner == msg.author \in config.owners

\* C17: for a node with owner_privilege and an author who is an owner,
\* check_discrepancy returns neither LackingPermissions nor LackingRole.
OwnerPrivilege ==
    (pc = "done" /\ opts[1].owner_privilege /\ IsOwner) =>
      \/ result.ok
      \/ result.err[1].tag \notin {"LackingPermissions", "LackingRole"}

\* C18: with case_insensitive = true, a token that differs only in letter
\* case from a prefix of a group is matched to that group by parse_group.
GroupCaseFolding ==
    (/\ Len(log) >= 1
     /\ config.case_insensitive
     /\ groups[1].kind = "WithPrefixes"
     /\ OneToken
     /\ TokenAt(Start) # LowerStr(TokenAt(Start))
     /\ LowerStr(TokenAt(Start)) \in DOMAIN WithPrefixesMap(groups[1]))
    => GroupProbe(log[1]).o
         = Some(WithPrefixesMap(groups[1])[LowerStr(TokenAt(Start))])

\* The restrictions of the node that the message violates, numbered in the
\* order of the gate; permissions and roles apply in a cached guild only.
Violated ==
    {i \in 1..5 :
       CASE i = 1 -> opts[1].owners_only /\ ~IsOwner
         [] i = 2 -> opts[1].only_in = "Dm" /\ ~msg.is_private
         [] i = 3 -> (opts[1].only_in = "Guild" \/ ~config.allow_dm)
                       /\ msg.is_private
         [] i = 4 -> /\ msg.guild = "cached"
                     /\ ~(opts[1].required_permissions \subseteq msg.perms)
                     /\ ~(opts[1].owner_privilege /\ IsOwner)
         [] i = 5 -> /\ msg.guild = "cached"
                     /\ msg.member
                     /\ "ADMINISTRATOR" \notin msg.perms
                     /\ opts[1].allowed_roles # {}
                     /\ opts[1].allowed_roles \cap msg.roles = {}}

ErrorOf(i) ==
    CASE i = 1 -> OnlyForOwners
      [] i = 2 -> OnlyForDM
      [] i = 3 -> OnlyForGuilds
      [] i = 4 -> LackingPermissions(opts[1].required_permissions)
      [] i = 5 -> LackingRole

\* C19: check_discrepancy returns the error of the first violated
\* restriction in the order OnlyForOwners, OnlyForDM, OnlyForGuilds,
\* LackingPermissions, LackingRole, and Ok only when none is violated.
GateOrder ==
    pc = "done" =>
      result = (IF Violated = {} THEN Ok("unit")
                ELSE Err(ErrorOf(Least(Violated))))

\* Owners only, direct messages only, a missing permission and a missing
\* role at once: OnlyForOwners is reported.
GateOrderWitness ==
    /\ pc = "done"
    /\ Violated = {1, 2, 4, 5}
    /\ result = Err(OnlyForOwners)

----------------------------------------------------------------------------
(* Nested resolution *)

Permitted(options) == check_discrepancy(msg, config, options).ok

Rejection(options) ==
    Err(Dispatch(check_discrepancy(msg, config, options).err[1]))

\* The attempt L matched at command level a permitted command that has
\* sub-commands.
ParentCommand(L) ==
    /\ CommandLevel(L) # None
    /\ Probe(L).n \notin config.disabled_commands
    /\ Probe(L).o # None
    /\ Permitted(CommandOptionsOf(Probe(L).o[1].cmd))
    /\ ~is_empty(Probe(L).o[1].map)

\* The cursor after the name of that command, and the probe of its
\* sub-commands there.
AfterParent(L) ==
    advance(CommandLevel(L)[1].stream, Len(Probe(L).n),
            config.with_whitespace.commands)

ChildProbe(L) ==
    try_parse(AfterParent(L), Probe(L).o[1].map, config.by_space,
              lowercase_of(config))

\* What parse_cmd is to return for L, and where it is to leave the cursor:
\* the parent when no sub-command is named, else what becomes of the child.
NestedCommand(L) ==
    LET after == advance(AfterParent(L), Len(ChildProbe(L).n),
                         config.with_whitespace.commands)
    IN  IF ChildProbe(L).n \in config.disabled_commands
        THEN [res |-> Err(Dispatch(CommandDisabled(ChildProbe(L).n))),
              offset |-> AfterParent(L).offset]
        ELSE IF ChildProbe(L).o = None
        THEN [res |-> Ok(Probe(L).o[1].cmd), offset |-> AfterParent(L).offset]
        ELSE IF ~Permitted(CommandOptionsOf(ChildProbe(L).o[1].cmd))
        THEN [res |-> Rejection(CommandOptionsOf(ChildProbe(L).o[1].cmd)),
              offset |-> after.offset]
        ELSE [res |-> Ok(ChildProbe(L).o[1].cmd), offset |-> after.offset]

NestedCommandFallback ==
    \A k \in 1..Len(log) :
      ParentCommand(log[k]) =>
        /\ log[k].stop = NestedCommand(log[k]).offset
        /\ NestedCommand(log[k]).res.ok =>
             log[k].res = Ok(InvokeCommand(ResolvedGroup(log[k]),
                                           NestedCommand(log[k]).res.val[1]))
        /\ (/\ ~NestedCommand(log[k]).res.ok
            /\ GroupOptionsOf(ResolvedGroup(log[k])).default_command = None)
           => log[k].res = NestedCommand(log[k]).res

\* The attempt L matched a permitted group that has sub-groups.
ParentGroup(L) ==
    /\ L.phase = "groups"
    /\ GroupProbe(L).o # None
    /\ Permitted(GroupOptionsOf(GroupProbe(L).o[1].group))
    /\ ~is_empty(GroupProbe(L).o[1].map)

AfterParentGroup(L) ==
    advance([src |-> stream.src, offset |-> L.start], Len(GroupProbe(L).n),
            config.with_whitespace.groups)

ChildGroupProbe(L) ==
    try_parse(AfterParentGroup(L), GroupProbe(L).o[1].map, config.by_space,
              to_string)

\* What the attempt L is to come to: the commands of the parent group are
\* resolved after its name when no sub-group is named, else the sub-group is
\* rejected or its commands are resolved after its name.
NestedGroup(L) ==
    LET after == advance(AfterParentGroup(L), Len(ChildGroupProbe(L).n),
                         config.with_whitespace.groups)
    IN  IF ChildGroupProbe(L).o = None
        THEN handle_command(AfterParentGroup(L), msg, config,
                            GroupProbe(L).o[1].commands,
                            GroupProbe(L).o[1].group)
        ELSE IF ~Permitted(GroupOptionsOf(ChildGroupProbe(L).o[1].group))
        THEN [res |-> Rejection(GroupOptionsOf(ChildGroupProbe(L).o[1].group)),
              stream |-> after]
        ELSE handle_command(after, msg, config,
                            ChildGroupProbe(L).o[1].commands,
                            ChildGroupProbe(L).o[1].group)

NestedGroupFallback ==
    \A k \in 1..Len(log) :
      ParentGroup(log[k]) =>
        /\ log[k].res = NestedGroup(log[k]).res
        /\ log[k].stop = NestedGroup(log[k]).stream.offset

\* C20: when a matched command or group has a non-empty child map and no
\* child is named next, the matched node itself is returned with the cursor
\* after its name and trimmed whitespace; a child's success or Dispatch
\* error is returned unchanged, not the parent.
NestedResolution == NestedCommandFallback /\ NestedGroupFallback

\* A command was matched, a token that names none of its sub-commands
\* follows: the command itself is returned, the cursor before that token.
NestedResolutionWitness ==
    /\ pc = "done"
    /\ log # <<>>
    /\ ParentCommand(log[Len(log)])
    /\ ChildProbe(log[Len(log)]).o = None
    /\ ChildProbe(log[Len(log)]).n # <<>>
    /\ result = Some(Ok(InvokeCommand(groups[1], "b")))
    /\ stream.offset = AfterParent(log[Len(log)]).offset

\* The message gives no access to permissions and roles: it has no guild
\* id, or its guild is not in the cache.
NoCapability == msg.guild \in {"none", "uncached"}

\* C21: without the permission/role capability check_discrepancy skips the
\* permission and role checks: its result is that of the owners_only and
\* DM/guild checks alone, never LackingPermissions or LackingRole.
GracefulDegradation ==
    (pc = "done" /\ NoCapability) =>
      /\ result = (IF Violated \cap 1..3 = {} THEN Ok("unit")
                   ELSE Err(ErrorOf(Least(Violated \cap 1..3))))
      /\ \/ result.ok
         \/ result.err[1].tag \notin {"LackingPermissions", "LackingRole"}

\* A node that requires a permission and a role, a message of a guild that
\* is not cached, from an author with neither: the gate passes.
GracefulDegradationWitness ==
    /\ pc = "done"
    /\ msg.guild = "uncached"
    /\ msg.perms = {}
    /\ msg.roles = {}
    /\ msg.member
    /\ opts[1].required_permissions = {"SEND_MESSAGES"}
    /\ opts[1].allowed_roles = {"role"}
    /\ ~opts[1].owners_only
    /\ result = Ok("unit")


----------------------------------------------------------------------------
(* Several resolutions at once: each is prefix() followed by command() on  *)
(* its own message and its own cursor, against one Configuration and one   *)
(* table. A resolution is suspended while it awaits a dynamic-prefix       *)
(* resolver (line 77) or the guild and permission lookups of               *)
(* check_discrepancy (lines 146-153); the resolutions are interleaved at   *)
(* every step.                                                             *)

MaxTasks == 2

\* A resolution as it is handed over: the message, its text under a fresh
\* cursor, nothing matched yet. hung tells that its lookup never completes.
NewTask(m, src, hung) ==
    [ msg |-> m, stream |-> [src |-> src, offset |-> 0], pc |-> "prefix",
      idx |-> 1, matched |-> None, prefix |-> None,
      last |-> Err(UnrecognisedCommand(None)), result |-> None,
      hung |-> hung ]

\* Every resolution works on one cursor, that of the first.
cursor_shared(ts, t) == ts[1].stream

\* stream: &mut Stream, lines 102 and 336: the cursor resolution t works on
\* is the one it was handed, borrowed by it alone.
cursor(ts, t) == ts[t].stream

\* Lines 359-389, one turn of the loop over the table: the outcome of the
\* attempt on entry e, the cursor after it, and whether command() returns.
entry(s, m, cfg, e) ==
    IF e.kind = "WithPrefixes"
    THEN Let(handle_group(s, m, cfg, WithPrefixesMap(e)),
             LAMBDA r : [res |-> r.res, stream |-> r.stream, ret |-> r.res.ok])
    ELSE Let(handle_group(s, m, cfg, PrefixlessSubgroups(e)),
             LAMBDA r1 :
               IF r1.res.ok
               THEN [res |-> gated(m, cfg, e, r1.res), stream |-> r1.stream,
                     ret |-> TRUE]
               ELSE Let(handle_command(r1.stream, m, cfg,
                                       PrefixlessCommandMap(e), e),
                        LAMBDA r2 :
                          [res |-> IF r2.res.ok
                                   THEN gated(m, cfg, e, r2.res) ELSE r2.res,
                           stream |-> r2.stream, ret |-> r2.res.ok]))

\* The resolution is awaiting a resolver's answer or a lookup's.
Suspended(tk) == tk.pc \in {"resolver", "lookup"}

\* One step of a resolution, from where it stands:
\*   "prefix"    prefix(), lines 105-109;
\*   "dynamic"   find_prefix, line 76 (the next resolver is called) or line
\*               84 (none is left, the static prefixes are scanned);
\*   "resolver"  line 77-81, the resolver has answered and its answer is tried;
\*   "advance"   prefix(), lines 113-121;
\*   "help"      command(), lines 342-356;
\*   "loop"      line 358 (the next entry is attempted, and the attempt
\*               awaits its lookups) or line 392;
\*   "lookup"    lines 359-389, the lookups have answered.
step(tk, cfg, table, help) ==
    CASE tk.pc = "prefix" ->
           Let(mention(tk.stream, cfg),
               LAMBDA r :
                 IF r.val # None
                 THEN [tk EXCEPT
                         !.stream = take_while(r.stream, Whitespace).stream,
                         !.prefix = r.val, !.pc = "help"]
                 ELSE [tk EXCEPT !.stream = r.stream, !.pc = "dynamic"])
      [] tk.pc = "dynamic" ->
           IF tk.idx <= Len(cfg.dynamic_prefixes)
           THEN [tk EXCEPT !.pc = "resolver"]
           ELSE [tk EXCEPT !.matched = find_map(cfg, tk.stream, 1),
                           !.pc = "advance"]
      [] tk.pc = "resolver" ->
           Let(dynamic_match(cfg, tk.stream, tk.idx),
               LAMBDA m :
                 IF m # None
                 THEN [tk EXCEPT !.matched = m, !.pc = "advance"]
                 ELSE [tk EXCEPT !.idx = tk.idx + 1, !.pc = "dynamic"])
      [] tk.pc = "advance" ->
           Let(IF tk.matched # None
               THEN increment(tk.stream, Len(tk.matched[1])) ELSE tk.stream,
               LAMBDA s1 :
                 [tk EXCEPT
                    !.stream = IF cfg.with_whitespace.prefixes
                               THEN take_while(s1, Whitespace).stream ELSE s1,
                    !.prefix = tk.matched, !.idx = 1, !.pc = "help"])
      [] tk.pc = "help" ->
           Let(IF help = None THEN None
               ELSE help_names(tk.stream, cfg, help[1], 1),
               LAMBDA h :
                 IF h # None
                 THEN [tk EXCEPT !.stream = h[1].stream,
                                 !.result = Some(Ok(InvokeHelp(h[1].name))),
                                 !.pc = "done"]
                 ELSE [tk EXCEPT !.idx = 1, !.pc = "loop"])
      [] tk.pc = "loop" ->
           IF tk.idx <= Len(table)
           THEN [tk EXCEPT !.pc = "lookup"]
           ELSE [tk EXCEPT !.result = Some(tk.last), !.pc = "done"]
      [] tk.pc = "lookup" ->
           Let(entry(tk.stream, tk.msg, cfg, table[tk.idx]),
               LAMBDA r :
                 IF r.ret
                 THEN [tk EXCEPT !.stream = r.stream,
                                 !.result = Some(r.res), !.pc = "done"]
                 ELSE [tk EXCEPT !.stream = r.stream, !.last = r.res,
                                 !.idx = tk.idx + 1, !.pc = "loop"])
      [] OTHER -> tk

\* The messages resolved at once: their author and their text.
ConcurrentInputs ==
    { [author |-> "user",  src |-> <<"!", "b">>],
      [author |-> "owner", src |-> <<"<", "@", "1", ">", " ", "a", " ", "b">>],
      [author |-> "user",  src |-> <<"!", "h">>] }

\* At most one of the resolutions awaits a lookup that never completes.
InitConcurrent ==
    /\ \E in \in [1..MaxTasks -> ConcurrentInputs] :
       \E stuck \in 0..MaxTasks :
          tasks = [t \in 1..MaxTasks |->
                     NewTask([DefaultMsg EXCEPT !.author = in[t].author],
                             in[t].src, t = stuck)]
    /\ \E d \in {<<None, Some(<<"!">>)>>} :
          config = [DefaultConfig EXCEPT
                      !.on_mention = Some(<<"1">>),
                      !.dynamic_prefixes = d,
                      !.prefixes = <<<<"!">>>>,
                      !.with_whitespace = [prefixes |-> TRUE, groups |-> TRUE,
                                           commands |-> TRUE]]
    /\ groups = <<[kind |-> "WithPrefixes", profile |-> 1],
                  [kind |-> "Prefixless", profile |-> 2]>>
    /\ help_was_set = Some(<<<<"h">>>>)
    /\ msg = DefaultMsg
    /\ opts = None
    /\ map = <<>>
    /\ stream = [src |-> <<>>, offset |-> 0]
    /\ begin = 0
    /\ pc = "tasks"
    /\ idx = 1
    /\ last = None
    /\ result = None
    /\ log = <<>>

\* What resolution t does next, on its cursor.
Stepped(t) ==
    step([tasks[t] EXCEPT !.stream = cursor(tasks, t)], config, groups,
         help_was_set)

\* Resolution t runs one step.
Run(t) ==
    /\ tasks[t].pc # "done"
    /\ ~Suspended(tasks[t])
    /\ tasks' = [tasks EXCEPT ![t] = Stepped(t)]
    /\ UNCHANGED <<config, msg, opts, groups, help_was_set, map, stream,
                   begin, pc, idx, last, result, log>>

\* The resolver or lookup resolution t awaits completes, and t resumes.
Resume(t) ==
    /\ Suspended(tasks[t])
    /\ ~tasks[t].hung
    /\ tasks' = [tasks EXCEPT ![t] = Stepped(t)]
    /\ UNCHANGED <<config, msg, opts, groups, help_was_set, map, stream,
                   begin, pc, idx, last, result, log>>

NextConcurrent == \E t \in 1..MaxTasks : Run(t) \/ Resume(t)

\* The executor does not stop while some resolution can make progress.
SpecConcurrent ==
    /\ InitConcurrent
    /\ [][NextConcurrent]_vars
    /\ WF_vars(NextConcurrent)

\* The resolution of tk's message run alone, to its end.
RECURSIVE run(_, _, _, _)
run(tk, cfg, table, help) ==
    IF tk.pc = "done" THEN tk
    ELSE run(step(tk, cfg, table, help), cfg, table, help)

RunAlone(tk) ==
    run(NewTask(tk.msg, tk.stream.src, FALSE), config, groups, help_was_set)

\* What a resolution returns: the prefix, the result, the cursor it leaves.
Outcome(tk) ==
    [prefix |-> tk.prefix, result |-> tk.result, stream |-> tk.stream]

============================================================================
